---- MODULE Spec2Model ----
(***************************************************************************)
(* A model of condor-comforter: the merge planner (haddaway/haddaway.py)   *)
(* and the dataset planner (cmsRun/cmsRunCondor.py and its htcondenser     *)
(* port cmsRunCondor/cmsRunCondor.py).                                     *)
(*                                                                         *)
(* Files, job names and tokens are records of one shape so that TLC can    *)
(* compare any two of them.  Python's None is the record None.             *)
(***************************************************************************)
EXTENDS Integers, Sequences, FiniteSets, TLC

VARIABLES
    \* ---- haddaway ----
    hw_pc,            \* "idle" | "start" | "submitted" | "error"
    hw_in,            \* the invocation: number of input files, --size, ...
    hw_err,           \* the exception that ended haddaway(), or "none"
    inter_hadd_jobs,  \* list of intermediate hadd Jobs
    final_hadd_job,   \* the final hadd Job, or NoJob
    rm_jobs,          \* list of removal Jobs
    hadd_dag,         \* the DAGMan: a set of nodes [name, requires]
    \* ---- cmsRunCondor ----
    cr_pc,            \* "idle" | "start" | "checked" | "resolved" | "grouped"
                      \*   | "sandboxed" | "scripted" | "done" | "error"
    cr_in,            \* the invocation: arguments, environment, DAS snapshot
    cr_err,           \* the exception that ended cmsRunCondor(), or "none"
    list_of_files,    \* list of DatasetFile
    job_files,        \* the files of each job
    job_lumis,        \* the LumiList of each job
    total_num_jobs,
    filenames,        \* which of filelist_filename, lumilist_filename are set
    written,          \* the job-description files written so far
    calls,            \* the external commands run so far, in order
    cmsrun_dag,       \* the nodes of the DAG description
    \* ---- the scheduler running a submitted DAG ----
    status,           \* node name -> "idle" | "running" | "done" | "failed"
    hdfs,             \* files present on HDFS that the DAG's jobs wrote
    \* ---- one call of a helper function or of a section of cmsRunCondor() ----
    fn_pc,            \* "idle" | "call" | "return"
    fn_in,            \* the function called and its arguments
    fn_out            \* what the call returned

hw_vars == <<hw_pc, hw_in, hw_err, inter_hadd_jobs, final_hadd_job, rm_jobs, hadd_dag>>
cr_vars == <<cr_pc, cr_in, cr_err, list_of_files, job_files, job_lumis,
             total_num_jobs, filenames, written, calls, cmsrun_dag>>
sched_vars == <<status, hdfs>>
fn_vars == <<fn_pc, fn_in, fn_out>>
vars == <<hw_vars, cr_vars, sched_vars, fn_vars>>

----------------------------------------------------------------------------
(* Bounds of the model *)

MaxFiles == 7        \* most input files of a merge run whose DAG is executed
MaxSize == 4         \* largest --size
MaxLocal == 1        \* the first MaxLocal input files may lie outside /hdfs
FanInSpan == 4       \* SpecFanIn: input counts within FanInSpan of the ceiling
MaxUnits == 3        \* largest --unitsPerJob
MaxDsFiles == 3      \* files of the dataset, or lines of the --filelist
MaxLS == 4           \* lumisections of run 1 in the arguments of a helper call
MaxChars == 5        \* longest --runRange string of arbitrary characters

(* Program constants *)
MaxInterJobs == 255  \* haddaway.py:164

----------------------------------------------------------------------------
(* Values *)

None == [kind |-> "None", ind |-> 0, rnd |-> ""]

\* The i-th input path, sanitised by abspath(): never the empty string.
InputFile(i) == [kind |-> "input", ind |-> i, rnd |-> ""]

\* os.path.join(final_dir, 'haddInter_%d_%s.root' % (ind, rand_str(5)))
InterOutputFile(ind, rnd) == [kind |-> "haddInter", ind |-> ind, rnd |-> rnd]

FinalFile == [kind |-> "final", ind |-> 0, rnd |-> ""]

\* One token of --haddArgs
OptArg == [kind |-> "opt", ind |-> 0, rnd |-> "-f"]

\* The copy on HDFS that htcondenser makes of an input file outside /hdfs
MirrorFile(f) == [kind |-> "mirror", ind |-> f.ind, rnd |-> ""]

\* Job names: "interHadd_%d", "finalHadd", "rm_%d", "rmCopy_%d_%d"
JobName(kind, ind, sub) == [kind |-> kind, ind |-> ind, sub |-> sub]
FinalName == JobName("finalHadd", 0, 0)

NoJob == [name |-> JobName("none", 0, 0), args |-> <<>>,
          input_files |-> <<>>, output_files |-> <<>>]

\* Outcomes of rand_str(5) that the model draws from
RandStrs == {"aaaaa", "bbbbb"}

\* Python truth value of a list element
Truthy(x) == x # None

CeilDiv(a, b) == (a + b - 1) \div b

RECURSIVE Flatten(_)
Flatten(groups) ==
    IF groups = <<>> THEN <<>> ELSE Head(groups) \o Flatten(Tail(groups))

Range(s) == {s[i] : i \in DOMAIN s}

\* seq[0:n] for n >= 0
Slice(seq, n) == SubSeq(seq, 1, IF n < Len(seq) THEN n ELSE Len(seq))

----------------------------------------------------------------------------
(* haddaway.py *)

\* A variant: izip in place of izip_longest, which stops at the last full group
grouper_izip(iterable, n) ==
    IF n <= 0 THEN <<>>
    ELSE [g \in 1..(Len(iterable) \div n) |->
            [k \in 1..n |-> iterable[(g - 1) * n + k]]]

\* grouper(iterable, n, fillvalue=None): [iter(iterable)] * n is the empty list
\* for n <= 0 and izip_longest() of no iterators yields nothing; otherwise
\* tuples of exactly n items, the last padded with the fill value.
grouper(iterable, n) ==
    IF n <= 0 THEN <<>>
    ELSE [g \in 1..CeilDiv(Len(iterable), n) |->
            [k \in 1..n |-> IF (g - 1) * n + k <= Len(iterable)
                            THEN iterable[(g - 1) * n + k]
                            ELSE None]]

\* list(filter(None, job_group))
filter_None(seq) == SelectSeq(seq, Truthy)

\* The group size arrange_hadd_files() partitions with (lines 111-113)
adjusted_group_size(n_files, group_size) ==
    IF n_files % group_size = 1 /\ group_size > 2
    THEN group_size - 1
    ELSE group_size

\* arrange_hadd_files(input_files, group_size), for group_size >= 2
arrange_hadd_files(input_files, group_size) ==
    LET gs == adjusted_group_size(Len(input_files), group_size)
        n_inter_jobs == CeilDiv(Len(input_files), gs)
    IN  IF n_inter_jobs = 1
        THEN <<input_files>>
        ELSE LET gr == grouper(input_files, gs)
             IN  [i \in 1..Len(gr) |-> filter_None(gr[i])]

\* ht.Job(name=..., args=..., input_files=..., output_files=...)
Job(name, args, input_files, output_files) ==
    [name |-> name, args |-> args,
     input_files |-> input_files, output_files |-> output_files]

\* A variant: the intermediate output is named by the random string alone
inter_job_unnumbered(ind, group, hadd_args, rnd) ==
    LET inter_output_file == InterOutputFile(0, rnd)
    IN  Job(JobName("interHadd", ind, 0),
            hadd_args \o <<inter_output_file>> \o group,
            group,
            <<inter_output_file>>)

\* The intermediate job of group number ind (0-based), lines 169-177
inter_job(ind, group, hadd_args, rnd) ==
    LET inter_output_file == InterOutputFile(ind, rnd)
    IN  Job(JobName("interHadd", ind, 0),
            hadd_args \o <<inter_output_file>> \o group,
            group,
            <<inter_output_file>>)

\* A variant: the ceiling test off by one
too_many_groups_ge(hadd_file_groups) == Len(hadd_file_groups) >= MaxInterJobs

\* "if len(hadd_file_groups) > 255", line 164
too_many_groups(hadd_file_groups) == Len(hadd_file_groups) > MaxInterJobs

\* create_hadd_jobs(input_files, group_size, final_filename, hadd_args):
\* [err, inter_jobs, final_hadd_job].  rnd[i] is what rand_str(5) returned
\* in iteration i of the loop.
create_hadd_jobs(input_files, group_size, hadd_args, rnd) ==
    IF group_size < 2
    THEN [err |-> "RuntimeError: group_size must be > 1",
          inter_jobs |-> <<>>, final_hadd_job |-> NoJob]
    ELSE
    LET hadd_file_groups == arrange_hadd_files(input_files, group_size)
    IN  IF Len(hadd_file_groups) = 0
        THEN [err |-> "IndexError", inter_jobs |-> <<>>, final_hadd_job |-> NoJob]
        ELSE IF Len(hadd_file_groups) > 1 /\ too_many_groups(hadd_file_groups)
        THEN [err |-> "RuntimeError: Final hadd cannot cope",
              inter_jobs |-> <<>>, final_hadd_job |-> NoJob]
        ELSE
        LET inter_jobs ==
                IF Len(hadd_file_groups) > 1
                THEN [i \in 1..Len(hadd_file_groups) |->
                        inter_job(i - 1, hadd_file_groups[i], hadd_args, rnd[i])]
                ELSE <<>>
            final_file_input ==
                IF Len(hadd_file_groups) > 1
                THEN [i \in 1..Len(inter_jobs) |-> inter_jobs[i].output_files[1]]
                ELSE hadd_file_groups[1]
        IN  [err |-> "none",
             inter_jobs |-> inter_jobs,
             final_hadd_job |-> Job(FinalName,
                                    hadd_args \o <<FinalFile>> \o final_file_input,
                                    final_file_input,
                                    <<FinalFile>>)]

\* A variant: the removal job removes the hadd job's first input
rm_job_input(ind, job) ==
    Job(JobName("rm", ind, 0), <<job.input_files[1]>>, <<>>, <<>>)

\* One removal job: "hadoop fs -rm -skipTrash <job.output_files[0]>"
rm_job(ind, job) ==
    Job(JobName("rm", ind, 0), <<job.output_files[1]>>, <<>>, <<>>)

\* create_intermediate_cleanup_jobs(inter_hadd_jobs)
create_intermediate_cleanup_jobs(inter_jobs) ==
    [i \in 1..Len(inter_jobs) |-> rm_job(i - 1, inter_jobs[i])]

\* hadd_dag.add_job(job, requires=...): one node of the DAG
DagNode(job, requires) == [name |-> job.name, requires |-> requires, job |-> job]

\* A variant: the removal jobs are added without requires=
rm_requires_none(final_job) == {}

\* What the removal jobs of lines 308-310 require
rm_requires(final_job) == {final_job.name}

\* What the final job requires, line 290
final_requires(inter_jobs) == {inter_jobs[i].name : i \in DOMAIN inter_jobs}

\* The jobs of lines 313-321 that remove the HDFS copies of input files that
\* were not on /hdfs; each requires the intermediate job that read the copy.
rm_copy_nodes(inter_jobs, local) ==
    UNION {{DagNode(Job(JobName("rmCopy", j - 1, m - 1),
                        <<MirrorFile(inter_jobs[j].input_files[m])>>, <<>>, <<>>),
                    {inter_jobs[j].name}) :
                m \in {k \in DOMAIN inter_jobs[j].input_files :
                          inter_jobs[j].input_files[k].ind \in local}} :
           j \in DOMAIN inter_jobs}

\* The DAG haddaway() builds, lines 285-321
build_dag(inter_jobs, final_job, removal_jobs, local) ==
    {DagNode(inter_jobs[i], {}) : i \in DOMAIN inter_jobs}
    \cup {DagNode(final_job, final_requires(inter_jobs))}
    \cup {DagNode(removal_jobs[i], rm_requires(final_job)) : i \in DOMAIN removal_jobs}
    \cup rm_copy_nodes(inter_jobs, local)

\* rand_str(5) in iteration i, when the run's random source produced r1, r2
rand_seq(r1, r2) == [i \in 1..(MaxInterJobs + 1) |-> IF i % 2 = 1 THEN r1 ELSE r2]

\* input_files after lines 230-247
input_files_of(n) == [i \in 1..n |-> InputFile(i)]

\* The checks of haddaway() before create_hadd_jobs, in the code's order
\* (lines 220, 226, 240, 246): the exception raised, or "none".
haddaway_precheck(inv) ==
    IF inv.precheck = "no_hadd" THEN "RuntimeError: Cannot find hadd in PATH"
    ELSE IF inv.precheck = "output_not_hdfs" THEN "RuntimeError: Output file MUST be on HDFS"
    ELSE IF inv.n < 2 THEN "RuntimeError: Fewer than 2 input files"
    ELSE IF inv.precheck = "input_not_found" THEN "IOError: Input does not exist"
    ELSE "none"

\* The copies of input files htcondenser puts on HDFS when the DAG is submitted
mirrors_of(jobs, local) ==
    UNION {{MirrorFile(jobs[j].input_files[m]) :
                m \in {k \in DOMAIN jobs[j].input_files :
                          /\ jobs[j].input_files[k].kind = "input"
                          /\ jobs[j].input_files[k].ind \in local}} :
           j \in DOMAIN jobs}

\* haddaway(in_args): the whole call, from the argument checks to
\* hadd_dag.submit(), or to the exception that ends it.
Haddaway ==
    /\ hw_pc = "start"
    /\ \E r1 \in RandStrs, r2 \in RandStrs :
        LET pre == haddaway_precheck(hw_in)
            res == create_hadd_jobs(input_files_of(hw_in.n), hw_in.size,
                                    hw_in.hadd_args, rand_seq(r1, r2))
        IN  IF pre # "none" \/ res.err # "none"
            THEN /\ hw_pc' = "error"
                 /\ hw_err' = IF pre # "none" THEN pre ELSE res.err
                 /\ UNCHANGED <<inter_hadd_jobs, final_hadd_job, rm_jobs,
                                hadd_dag, status, hdfs>>
            ELSE LET removal == create_intermediate_cleanup_jobs(res.inter_jobs)
                     dag == build_dag(res.inter_jobs, res.final_hadd_job,
                                      removal, hw_in.local)
                 IN  /\ hw_pc' = "submitted"
                     /\ hw_err' = "none"
                     /\ inter_hadd_jobs' = res.inter_jobs
                     /\ final_hadd_job' = res.final_hadd_job
                     /\ rm_jobs' = removal
                     /\ hadd_dag' = dag
                     /\ status' = [nm \in {d.name : d \in dag} |-> "idle"]
                     /\ hdfs' = mirrors_of(res.inter_jobs \o <<res.final_hadd_job>>,
                                           hw_in.local)
    /\ UNCHANGED <<hw_in, cr_vars, fn_vars>>

----------------------------------------------------------------------------
(* cmsRunCondor.py: the helpers, identical in cmsRun/ and cmsRunCondor/    *)

\* DatasetFile(name, lumi_list).  A LumiList is the set of its <<run, LS>>
\* pairs; lumi_list=None (a file of a --filelist) is modelled by {} and is
\* never read.  parents holds the names of the parent files.
DatasetFile(name, lumi_list) ==
    [name |-> name, lumi_list |-> lumi_list, parents |-> {}]

\* LumiList.compactList[run]: the maximal ranges [first, last] of the run
CompactRanges(lumi_list, run) ==
    LET ls == {p[2] : p \in {q \in lumi_list : q[1] = run}}
    IN  {r \in ls \X ls :
            /\ r[1] <= r[2]
            /\ \A x \in r[1]..r[2] : x \in ls
            /\ (r[1] - 1) \notin ls
            /\ (r[2] + 1) \notin ls}

RunsOf(lumi_list) == {p[1] : p \in lumi_list}

\* A variant: only the first lumisection of the range is looked up
find_matching_run_ls_range_first(raw_files, run, ls_range) ==
    {f \in Range(raw_files) : <<run, ls_range[1]>> \in f.lumi_list}

\* find_matching_run_ls_range(raw_files, run, ls_range)
find_matching_run_ls_range(raw_files, run, ls_range) ==
    {f \in Range(raw_files) :
        \E ls \in ls_range[1]..ls_range[2] : <<run, ls>> \in f.lumi_list}

\* find_matching_files(raw_files, lumi_list): [err, files]
find_matching_files(raw_files, lumi_list) ==
    LET ranges == {<<run, lsr>> \in RunsOf(lumi_list) \X
                       UNION {CompactRanges(lumi_list, r) : r \in RunsOf(lumi_list)} :
                     lsr \in CompactRanges(lumi_list, run)}
    IN  IF \E x \in ranges : find_matching_run_ls_range(raw_files, x[1], x[2]) = {}
        THEN [err |-> "RuntimeError: No matching RAW file for this LS", files |-> {}]
        ELSE [err |-> "none",
              files |-> UNION {find_matching_run_ls_range(raw_files, x[1], x[2]) :
                                 x \in ranges}]

\* A variant: zip in place of izip_longest, which stops at the last full group
crc_grouper_zip(iterable, n) ==
    IF n <= 0 THEN <<>>
    ELSE [g \in 1..(Len(iterable) \div n) |->
            [k \in 1..n |-> iterable[(g - 1) * n + k]]]

\* grouper(iterable, n, fillvalue=None) of cmsRunCondor.py
crc_grouper(iterable, n) ==
    IF n <= 0 THEN <<>>
    ELSE [g \in 1..CeilDiv(Len(iterable), n) |->
            [k \in 1..n |-> IF (g - 1) * n + k <= Len(iterable)
                            THEN iterable[(g - 1) * n + k]
                            ELSE None]]

\* A variant: the files that overlap the mask keep their whole LumiList
filter_by_lumi_list_whole(files, lumi_mask) ==
    SelectSeq(files, LAMBDA f : f.lumi_list \cap lumi_mask # {})

\* filter_by_lumi_list(list_of_files, lumi_mask)
filter_by_lumi_list(files, lumi_mask) ==
    LET narrowed == [i \in DOMAIN files |->
                        [files[i] EXCEPT !.lumi_list = @ \cap lumi_mask]]
    IN  SelectSeq(narrowed, LAMBDA f : f.lumi_list # {})

\* filter_by_run_num(list_of_files, run_list)
filter_by_run_num(files, run_list) ==
    LET narrowed == [i \in DOMAIN files |->
                        [files[i] EXCEPT
                            !.lumi_list = {p \in @ : p[1] \in Range(run_list)}]]
    IN  SelectSeq(narrowed, LAMBDA f : f.lumi_list # {})

\* group_files_by_files_per_job(list_of_files, files_per_job)
group_files_by_files_per_job(files, files_per_job) ==
    LET gr == crc_grouper(files, files_per_job)
    IN  [i \in 1..Len(gr) |-> filter_None(gr[i])]

\* The position of a key in dict.keys(): CPython orders a dict by the hashes
\* of its keys, an order fixed by the keys but not the sorted one.
KeyHash(k) == ((k[1] * 31 + k[2] * 5) % 8) * 10000 + k[1] * 100 + k[2]

\* dict.keys()
RECURSIVE dict_keys(_)
dict_keys(keyset) ==
    IF keyset = {} THEN <<>>
    ELSE LET first == CHOOSE k \in keyset :
                          \A o \in keyset : KeyHash(k) <= KeyHash(o)
         IN  <<first>> \o dict_keys(keyset \ {first})

\* A variant: a pair stays with the first file that holds it
flatten_lumis_first(files) ==
    [k \in UNION {files[i].lumi_list : i \in DOMAIN files} |->
        files[CHOOSE i \in DOMAIN files :
                /\ k \in files[i].lumi_list
                /\ \A j \in DOMAIN files : k \in files[j].lumi_list => i <= j]]

\* list_of_lumis of lines 808-811: each <<run, LS>> of some file, mapped to
\* the last file of the list that holds it
flatten_lumis(files) ==
    [k \in UNION {files[i].lumi_list : i \in DOMAIN files} |->
        files[CHOOSE i \in DOMAIN files :
                /\ k \in files[i].lumi_list
                /\ \A j \in DOMAIN files : k \in files[j].lumi_list => j <= i]]

\* A variant: keys()[0:int(totalUnits)] whenever totalUnits is no fraction,
\* which for -1 leaves the last key out
truncate_lumis_unguarded(lumis, t) ==
    LET keys == dict_keys(DOMAIN lumis)
        kept == IF 0 < t[1] /\ t[1] < t[2]
                THEN Slice(keys, CeilDiv(Len(keys) * t[1], t[2]) + 1)
                ELSE IF t[1] >= t[2]
                THEN Slice(keys, t[1] \div t[2])
                ELSE IF keys = <<>> THEN keys
                ELSE Slice(keys, Len(keys) - 1)
    IN  [k \in Range(kept) |-> lumis[k]]

\* Lines 813-817: the keys kept of list_of_lumis, for totalUnits = t[1]/t[2]
truncate_lumis(lumis, t) ==
    LET keys == dict_keys(DOMAIN lumis)
        kept == IF 0 < t[1] /\ t[1] < t[2]
                THEN Slice(keys, CeilDiv(Len(keys) * t[1], t[2]) + 1)
                ELSE IF t[1] >= t[2]
                THEN Slice(keys, t[1] \div t[2])
                ELSE keys
    IN  [k \in Range(kept) |-> lumis[k]]

\* A variant: each job's LumiList is the sum of its files' LumiLists
group_files_by_lumis_per_job_whole(lumis, lumis_per_job) ==
    LET gr == crc_grouper(dict_keys(DOMAIN lumis), lumis_per_job)
        group_keys == [i \in 1..Len(gr) |-> filter_None(gr[i])]
    IN  [group_files |-> [i \in 1..Len(gr) |-> {lumis[k] : k \in Range(group_keys[i])}],
         group_lumis |-> [i \in 1..Len(gr) |->
                            UNION {lumis[k].lumi_list : k \in Range(group_keys[i])}]]

\* A variant: every job gets every file of list_of_lumis
group_files_by_lumis_per_job_all(lumis, lumis_per_job) ==
    LET gr == crc_grouper(dict_keys(DOMAIN lumis), lumis_per_job)
        group_keys == [i \in 1..Len(gr) |-> filter_None(gr[i])]
    IN  [group_files |-> [i \in 1..Len(gr) |-> {lumis[k] : k \in DOMAIN lumis}],
         group_lumis |-> [i \in 1..Len(gr) |-> Range(group_keys[i])]]

\* group_files_by_lumis_per_job(list_of_lumis, lumis_per_job):
\* [group_files, group_lumis]
group_files_by_lumis_per_job(lumis, lumis_per_job) ==
    LET gr == crc_grouper(dict_keys(DOMAIN lumis), lumis_per_job)
        group_keys == [i \in 1..Len(gr) |-> filter_None(gr[i])]
    IN  [group_files |-> [i \in 1..Len(gr) |-> {lumis[k] : k \in Range(group_keys[i])}],
         group_lumis |-> [i \in 1..Len(gr) |-> Range(group_keys[i])]]

\* A variant: the LumiList of a job is that of its first file
union_job_lumis_first(groups) ==
    [g \in DOMAIN groups |-> groups[g][1].lumi_list]

\* Lines 796-802: the LumiList of each job when splitting by files
union_job_lumis(groups) ==
    [g \in DOMAIN groups |->
        UNION {groups[g][i].lumi_list : i \in DOMAIN groups[g]}]

\* A variant: a LumiList with an in-place +=, which widens f[0].lumi_list
iadd_target_widened(first, sum) == sum

\* f[0].lumi_list after "tmp = f[0].lumi_list; tmp += x.lumi_list" has made
\* the sum: LumiList has __add__ and no __iadd__, so += binds tmp to a new
\* LumiList and leaves the first file's alone.
iadd_target(first, sum) == first

\* The files of list_of_files after lines 796-802
files_after_union(files, groups) ==
    [i \in DOMAIN files |->
        IF \E g \in DOMAIN groups : Len(groups[g]) > 1 /\ groups[g][1].name = files[i].name
        THEN LET g == CHOOSE g \in DOMAIN groups : groups[g][1].name = files[i].name
             IN  [files[i] EXCEPT
                     !.lumi_list = iadd_target(@, union_job_lumis(groups)[g])]
        ELSE files[i]]

\* The DAS snapshot: file i of the dataset holds lumisections 2i-1 and 2i of
\* run 1
das_files(n) == [i \in 1..n |-> DatasetFile(i, {<<1, 2 * i - 1>>, <<1, 2 * i>>})]

\* The secondary dataset: two files that cover the primary one ("covering"),
\* or one file that holds only the first primary file's lumisections ("partial")
das_secondary_files(kind, n) ==
    IF kind = "covering"
    THEN <<DatasetFile(101, {<<1, l>> : l \in 1..3}),
           DatasetFile(102, {<<1, l>> : l \in 4..(2 * n)})>>
    ELSE <<DatasetFile(101, {<<1, 1>>, <<1, 2>>})>>

\* The files named in --filelist
filelist_files(n) == [i \in 1..n |-> DatasetFile(i, {})]

\* Values of --totalUnits as fractions <<numerator, denominator>>: -1 (the
\* default, all), 1/2 and 2
TotalUnits == {<<-1, 1>>, <<1, 2>>, <<2, 1>>}

\* get_list_of_files_from_das(dataset, num_files): the files DAS returns for
\* num_files = t[1]/t[2]
get_list_of_files_from_das(n, t) ==
    LET limit == IF t[1] < 0 THEN n
                 ELSE IF t[1] < t[2] THEN CeilDiv(t[1] * n, t[2])
                 ELSE IF t[1] > n * t[2] THEN n
                 ELSE t[1] \div t[2]
    IN  Slice(das_files(n), limit)

----------------------------------------------------------------------------
(* cmsRunCondor(in_args), in the order of its sections.  cr_in.version     *)
(* tells the script of cmsRun/ ("cmsRun") from its htcondenser port of     *)
(* cmsRunCondor/ ("cmsRunCondor").                                         *)

Outcome(err, new_calls) == [err |-> err, calls |-> new_calls]

Profiling(inv) == inv.profile # "none"

\* A variant: the test of an explicit count turned into that of a fraction
units_exceed_total_fraction(inv) ==
    /\ inv.units_given
    /\ inv.units * inv.total[2] > inv.total[1]
    /\ inv.total[1] < inv.total[2]

\* unitsPerJob > totalUnits and totalUnits >= 1; Python 2 orders None below
\* every number, so an absent unitsPerJob passes.
units_exceed_total(inv) ==
    /\ inv.units_given
    /\ inv.units * inv.total[2] > inv.total[1]
    /\ inv.total[1] >= inv.total[2]

\* flag_dependent_args(args, opts_a, opts_b), lines 519-528 (178-184), args
\* being the set of the options that are set: when every option of opts_a
\* is set, an option of opts_b that is not set raises
flag_dependent_args(args, opts_a, opts_b) ==
    IF opts_a \subseteq args /\ opts_b \ args # {}
    THEN "RuntimeError: requires" ELSE "none"

\* vars(args) of an invocation, as the set of the options that are set
SetOptions(inv) ==
    (IF inv.dataset THEN {"dataset"} ELSE {})
    \cup (IF inv.filelist THEN {"filelist"} ELSE {})
    \cup (IF inv.secondary # "none" THEN {"secondaryDataset"} ELSE {})

\* Lines 568-570 (238-240): "if args.secondaryDataset:
\* flag_dependent_args(args, ['dataset'], ['secondaryDataset'])"
secondary_check(inv) ==
    IF inv.secondary # "none"
    THEN flag_dependent_args(SetOptions(inv), {"dataset"}, {"secondaryDataset"})
    ELSE "none"

\* parse_args and check_args of cmsRun/cmsRunCondor.py, lines 648-728, 531-586
check_args_cmsRun(inv) ==
    IF inv.split = "none"
    THEN Outcome("SystemExit: one of --splitByFiles --splitByLumis is required", <<>>)
    ELSE IF inv.env = "no_config"
    THEN Outcome("IOError: Cannot find config file", <<>>)
    ELSE IF inv.filelist /\ (inv.dataset \/ inv.split = "lumis")
    THEN Outcome("RuntimeError: Cannot specify both", <<>>)
    ELSE IF inv.filelist /\ inv.env = "no_filelist"
    THEN Outcome("IOError: Cannot find filelist", <<>>)
    ELSE IF inv.env = "out_not_hdfs"
    THEN Outcome("RuntimeError: Output directory (--outputDir) not on /hdfs", <<>>)
    ELSE LET mkdir == IF inv.env = "out_absent" THEN <<"hadoop fs -mkdir">> ELSE <<>>
         IN  IF units_exceed_total(inv)
             THEN Outcome("RuntimeError: You can't have unitsPerJob > totalUnits!", mkdir)
             ELSE IF secondary_check(inv) # "none"
             THEN Outcome(secondary_check(inv), mkdir)
             ELSE IF Profiling(inv) /\ (inv.filelist \/ inv.dataset)
             THEN Outcome("RuntimeError: Cannot specify both", mkdir)
             ELSE Outcome("none", mkdir)

\* parse_args and check_args of cmsRunCondor/cmsRunCondor.py, lines 747-756,
\* 187-263.  flag_mutually_exclusive_args (lines 168-175) looks for the
\* options in sys.argv, so it finds them only when in_args is sys.argv[1:]
\* (inv.in_argv), and not in arguments that a program passes.
check_args_cmsRunCondor(inv) ==
    LET sources == {x \in {"dataset", "filelist", "profile"} :
                      \/ x = "dataset" /\ inv.dataset
                      \/ x = "filelist" /\ inv.filelist
                      \/ x = "profile" /\ Profiling(inv)}
    IN  IF Cardinality(sources) # 1
        THEN Outcome("SystemExit: exactly one input source is required", <<>>)
        ELSE IF inv.env = "no_config"
        THEN Outcome("IOError: Cannot find config file", <<>>)
        ELSE IF inv.in_argv /\ inv.filelist /\ inv.split = "lumis"
        THEN Outcome("RuntimeError: Cannot specify both", <<>>)
        ELSE IF inv.in_argv /\ Profiling(inv)
                            /\ (\/ inv.split # "none"
                                \/ inv.units_given
                                \/ inv.total # <<-1, 1>>
                                \/ inv.secondary # "none")
        THEN Outcome("RuntimeError: Cannot specify both", <<>>)
        ELSE IF inv.filelist /\ inv.env = "no_filelist"
        THEN Outcome("IOError: Cannot find filelist", <<>>)
        ELSE IF inv.dataset /\ inv.split = "none"
        THEN Outcome("RuntimeError: need either --splitByFiles or --splitByLumis", <<>>)
        ELSE IF inv.env = "out_not_hdfs"
        THEN Outcome("RuntimeError: Output directory (--outputDir) not on /hdfs", <<>>)
        ELSE IF units_exceed_total(inv)
        THEN Outcome("RuntimeError: You can't have unitsPerJob > totalUnits!", <<>>)
        ELSE IF secondary_check(inv) # "none"
        THEN Outcome(secondary_check(inv), <<>>)
        ELSE Outcome("none", <<>>)

check_args(inv) ==
    IF inv.version = "cmsRun" THEN check_args_cmsRun(inv)
    ELSE check_args_cmsRunCondor(inv)

\* A variant: the port forces it only for a --filelist found in sys.argv
SplitByFiles_argv(inv) ==
    \/ inv.split = "files"
    \/ inv.version = "cmsRunCondor" /\ inv.filelist /\ inv.in_argv

\* args.splitByFiles after check_args: the port forces it for --filelist
SplitByFiles(inv) ==
    \/ inv.split = "files"
    \/ inv.version = "cmsRunCondor" /\ inv.filelist

CrFail(err, new_calls) ==
    /\ cr_pc' = "error"
    /\ cr_err' = err
    /\ calls' = calls \o new_calls

CrCheckArgs ==
    /\ cr_pc = "start"
    /\ LET res == check_args(cr_in)
       IN  IF res.err # "none"
           THEN CrFail(res.err, res.calls)
           ELSE /\ cr_pc' = "checked"
                /\ calls' = calls \o res.calls
                /\ UNCHANGED cr_err
    /\ UNCHANGED <<cr_in, list_of_files, job_files, job_lumis, total_num_jobs,
                   filenames, written, cmsrun_dag, hw_vars, fn_vars, sched_vars>>

\* Lines 754-769: the files taken from --filelist: [err, files]
files_from_filelist(inv) ==
    LET all == filelist_files(inv.nfiles)
        t == inv.total
    IN  IF t[1] < 0 THEN [err |-> "none", files |-> all]
        ELSE IF t[1] < t[2]
        THEN [err |-> "none",
              files |-> Slice(all, (2 * t[1] * Len(all) + t[2]) \div (2 * t[2]))]
        ELSE IF t[1] \div t[2] >= Len(all)
        THEN [err |-> "IndexError: You cannot have more files than in the files",
              files |-> <<>>]
        ELSE [err |-> "none", files |-> Slice(all, t[1] \div t[2])]

\* Lines 784-788: each file's parents among the secondary dataset's files
with_parents(files, secondary_files) ==
    [i \in DOMAIN files |->
        [files[i] EXCEPT !.parents =
            {p.name : p \in find_matching_files(secondary_files,
                                                files[i].lumi_list).files}]]

\* A variant: the filters are applied whether or not they are empty
select_files_unguarded(files, run_list, lumi_mask) ==
    filter_by_lumi_list(filter_by_run_num(files, run_list), lumi_mask)

\* Lines 778-781: "if run_list:" and "if lumi_mask:" skip a filter that is
\* None or empty
select_files(files, run_list, lumi_mask) ==
    LET by_run == IF run_list # <<>>
                  THEN filter_by_run_num(files, run_list)
                  ELSE files
    IN  IF lumi_mask # {}
        THEN filter_by_lumi_list(by_run, lumi_mask)
        ELSE by_run

\* Lines 731-788 (759-815 of the port): the run list, the lumi mask and the
\* list of files: [err, calls, files, filenames]
resolve_files(inv) ==
    IF Profiling(inv)
    THEN [err |-> "none", calls |-> <<>>, files |-> <<>>, filenames |-> {}]
    ELSE IF inv.version = "cmsRun" /\ ~inv.filelist /\ ~inv.dataset
    THEN [err |-> "RuntimeError: You must specify a dataset or a filelist",
          calls |-> <<>>, files |-> <<>>, filenames |-> {}]
    ELSE IF ~inv.units_given
    THEN [err |-> "RuntimeError: You must specify an integer number of --unitsPerJob",
          calls |-> <<>>, files |-> <<>>, filenames |-> {}]
    ELSE IF inv.filelist
    THEN LET got == files_from_filelist(inv)
         IN  [err |-> got.err, calls |-> <<>>, files |-> got.files,
              filenames |-> {"filelist"}]
    ELSE IF inv.env = "das_fail"
    THEN [err |-> "RuntimeError: Error querying dataset with das_client",
          calls |-> <<"das_client summary">>, files |-> <<>>, filenames |-> {}]
    ELSE
    LET n_files == IF SplitByFiles(inv) THEN inv.total ELSE <<-1, 1>>
        from_das == get_list_of_files_from_das(inv.nfiles, n_files)
        by_mask == select_files(from_das, inv.run_list, inv.lumi_mask)
        das_calls == <<"das_client summary", "das_client file,run,lumi">>
    IN  IF inv.secondary = "none"
        THEN [err |-> "none", calls |-> das_calls, files |-> by_mask,
              filenames |-> {"filelist", "lumilist"}]
        ELSE LET secondary_files == das_secondary_files(inv.secondary, inv.nfiles)
                 uncovered == \E i \in DOMAIN by_mask :
                     find_matching_files(secondary_files,
                                         by_mask[i].lumi_list).err # "none"
             IN  IF uncovered
                 THEN [err |-> "RuntimeError: No matching RAW file for this LS",
                       calls |-> das_calls \o das_calls, files |-> <<>>,
                       filenames |-> {}]
                 ELSE [err |-> "none", calls |-> das_calls \o das_calls,
                       files |-> with_parents(by_mask, secondary_files),
                       filenames |-> {"filelist", "lumilist"}]

CrResolveFiles ==
    /\ cr_pc = "checked"
    /\ LET res == resolve_files(cr_in)
       IN  IF res.err # "none"
           THEN /\ CrFail(res.err, res.calls)
                /\ UNCHANGED <<list_of_files, filenames>>
           ELSE /\ cr_pc' = "resolved"
                /\ calls' = calls \o res.calls
                /\ list_of_files' = res.files
                /\ filenames' = res.filenames
                /\ UNCHANGED cr_err
    /\ UNCHANGED <<cr_in, job_files, job_lumis, total_num_jobs, written,
                   cmsrun_dag, hw_vars, fn_vars, sched_vars>>

\* A grouping that leaves the file list and the lumi list unwritten
group_jobs_unwritten(inv, files, names) ==
    [job_files |-> <<>>, job_lumis |-> <<>>, total_num_jobs |-> 1, written |-> {},
     files |-> files]

\* Lines 790-823 (817-850): the job grouping, and the file list and lumi list
\* it writes: [job_files, job_lumis, total_num_jobs, written, files], files
\* being list_of_files as the grouping leaves it
group_jobs(inv, files, names) ==
    IF Profiling(inv)
    THEN [job_files |-> <<>>, job_lumis |-> <<>>, total_num_jobs |-> 1,
          written |-> {}, files |-> files]
    ELSE IF SplitByFiles(inv)
    THEN LET groups == group_files_by_files_per_job(files, inv.units)
         IN  [job_files |-> groups,
              job_lumis |-> IF "lumilist" \in names
                            THEN union_job_lumis(groups) ELSE <<>>,
              total_num_jobs |-> Len(groups),
              written |-> {"filelist"} \cup (names \cap {"lumilist"}),
              files |-> IF "lumilist" \in names
                        THEN files_after_union(files, groups) ELSE files]
    ELSE IF inv.split = "lumis"
    THEN LET lumis == truncate_lumis(flatten_lumis(files), inv.total)
             groups == group_files_by_lumis_per_job(lumis, inv.units)
         IN  [job_files |-> groups.group_files,
              job_lumis |-> groups.group_lumis,
              total_num_jobs |-> Len(groups.group_files),
              written |-> {"filelist", "lumilist"}, files |-> files]
    ELSE [job_files |-> <<>>, job_lumis |-> <<>>, total_num_jobs |-> 1,
          written |-> {}, files |-> files]

CrGroupJobs ==
    /\ cr_pc = "resolved"
    /\ LET res == group_jobs(cr_in, list_of_files, filenames)
       IN  /\ job_files' = res.job_files
           /\ job_lumis' = res.job_lumis
           /\ total_num_jobs' = res.total_num_jobs
           /\ written' = written \cup res.written
           /\ list_of_files' = res.files
    /\ cr_pc' = "grouped"
    /\ UNCHANGED <<cr_in, cr_err, filenames, calls, cmsrun_dag,
                   hw_vars, fn_vars, sched_vars>>

\* setup_sandbox, lines 283-357 (517-570) as called at lines 830-844
\* (857-863): [err, calls, written]
setup_sandbox(inv) ==
    IF inv.env = "input_missing"
    THEN [err |-> "IOError: Cannot find additional file", calls |-> <<>>,
          written |-> {"sandbox"}]
    ELSE [err |-> "none",
          calls |-> IF inv.version = "cmsRun"
                    THEN <<"hadoop fs -copyFromLocal">> ELSE <<>>,
          written |-> {"sandbox"}]

CrSetupSandbox ==
    /\ cr_pc = "grouped"
    /\ LET res == setup_sandbox(cr_in)
       IN  IF res.err # "none"
           THEN /\ CrFail(res.err, res.calls)
                /\ written' = written \cup res.written
           ELSE /\ cr_pc' = "sandboxed"
                /\ calls' = calls \o res.calls
                /\ written' = written \cup res.written
                /\ UNCHANGED cr_err
    /\ UNCHANGED <<cr_in, list_of_files, job_files, job_lumis, total_num_jobs,
                   filenames, cmsrun_dag, hw_vars, fn_vars, sched_vars>>

\* A dataset DAG whose nodes run one after the other
cmsrun_requires_chain(job_ind) ==
    IF job_ind > 0 THEN {JobName("cmsRun", job_ind - 1, 0)} ELSE {}

\* What a node of the dataset DAG requires: write_dag_file writes JOB, VARS
\* and RETRY lines only; the port calls cmsrun_dag.add_job(job, retry=5).
cmsrun_requires(job_ind) == {}

\* write_dag_file, lines 473-496 (the loop of lines 909-946 in the port)
cmsrun_dag_nodes(num_jobs) ==
    {DagNode(Job(JobName("cmsRun", job_ind, 0), <<>>, <<>>, <<>>),
             cmsrun_requires(job_ind)) : job_ind \in 0..(num_jobs - 1)}

\* Lines 846-892: the condor script and the DAG file.  The port (lines
\* 865-946) builds the JobSet and the DAGMan, which write their files when
\* they are submitted.
CrWriteJobFiles ==
    /\ cr_pc = "sandboxed"
    /\ cr_pc' = "scripted"
    /\ cmsrun_dag' = IF cr_in.dag THEN cmsrun_dag_nodes(total_num_jobs) ELSE {}
    /\ written' = IF cr_in.version = "cmsRun"
                  THEN written \cup {"condor"}
                          \cup (IF cr_in.dag THEN {"dag"} ELSE {})
                  ELSE written
    /\ UNCHANGED <<cr_in, cr_err, list_of_files, job_files, job_lumis,
                   total_num_jobs, filenames, calls, hw_vars, fn_vars, sched_vars>>

\* The commands of the submission, lines 897-904 (951-955)
submit_calls(inv) ==
    IF inv.dry THEN <<>>
    ELSE <<IF inv.dag THEN "condor_submit_dag" ELSE "condor_submit">>

CrSubmit ==
    /\ cr_pc = "scripted"
    /\ cr_pc' = "done"
    /\ calls' = calls \o submit_calls(cr_in)
    /\ written' = IF cr_in.version = "cmsRunCondor" /\ ~cr_in.dry
                  THEN written \cup {"condor"}
                          \cup (IF cr_in.dag THEN {"dag"} ELSE {})
                  ELSE written
    /\ status' = IF cr_in.dag /\ ~cr_in.dry
                 THEN [nm \in {d.name : d \in cmsrun_dag} |-> "idle"]
                 ELSE status
    /\ UNCHANGED <<cr_in, cr_err, list_of_files, job_files, job_lumis,
                   total_num_jobs, filenames, cmsrun_dag, hw_vars, fn_vars, hdfs>>

CmsRunCondor ==
    \/ CrCheckArgs
    \/ CrResolveFiles
    \/ CrGroupJobs
    \/ CrSetupSandbox
    \/ CrWriteJobFiles
    \/ CrSubmit

----------------------------------------------------------------------------
(* One call of a helper function of cmsRunCondor.py, or of a section of    *)
(* cmsRunCondor(), on arguments drawn from small sets.  The helper         *)
(* functions are the same in both scripts.                                 *)

\* The <<run, lumisection>> pairs the arguments are made of
Keys == ({1} \X (1..MaxLS)) \cup {<<2, 1>>}

LumiLists == SUBSET Keys

\* Lists of at most two files, each with some lumisections
FileLists ==
    {<<>>}
    \cup {<<DatasetFile(1, a)>> : a \in LumiLists \ {{}}}
    \cup {<<DatasetFile(1, a), DatasetFile(2, b)>> : a, b \in LumiLists \ {{}}}

\* Results of parse_run_range; no file has lumisections of run 3
RunLists == {<<1>>, <<2>>, <<3>>, <<1, 2>>}

FnCalls ==
    [fn : {"grouper"}, planner : {"haddaway", "cmsRunCondor"},
     iterable : {input_files_of(k) : k \in 0..MaxLS}, n : -1..MaxUnits]
    \cup [fn : {"find_matching_files"}, raw_files : FileLists,
          lumi_list : LumiLists]
    \cup [fn : {"filter_by_run_num"}, list_of_files : FileLists,
          run_list : RunLists]
    \cup [fn : {"filter_by_lumi_list"}, list_of_files : FileLists,
          lumi_mask : LumiLists]
    \cup [fn : {"select_files"}, list_of_files : FileLists,
          run_list : RunLists \cup {<<>>},
          lumi_mask : {{}} \cup {{k} : k \in Keys}]
    \cup [fn : {"split_by_lumis"}, list_of_files : FileLists,
          totalUnits : TotalUnits, unitsPerJob : 1..MaxUnits]
    \cup [fn : {"split_by_files"}, list_of_files : FileLists,
          unitsPerJob : 1..MaxUnits]

FnReturn(value) ==
    /\ fn_pc' = "return"
    /\ fn_out' = value
    /\ UNCHANGED <<fn_in, hw_vars, cr_vars, sched_vars>>

\* grouper(iterable, n) of either script: it has no raise statement
CallGrouper ==
    /\ fn_pc = "call"
    /\ fn_in.fn = "grouper"
    /\ FnReturn([err |-> "none",
                 groups |-> IF fn_in.planner = "haddaway"
                            THEN grouper(fn_in.iterable, fn_in.n)
                            ELSE crc_grouper(fn_in.iterable, fn_in.n)])

CallFindMatchingFiles ==
    /\ fn_pc = "call"
    /\ fn_in.fn = "find_matching_files"
    /\ FnReturn(find_matching_files(fn_in.raw_files, fn_in.lumi_list))

CallFilterByRunNum ==
    /\ fn_pc = "call"
    /\ fn_in.fn = "filter_by_run_num"
    /\ FnReturn([files |-> filter_by_run_num(fn_in.list_of_files, fn_in.run_list)])

CallFilterByLumiList ==
    /\ fn_pc = "call"
    /\ fn_in.fn = "filter_by_lumi_list"
    /\ FnReturn([files |-> filter_by_lumi_list(fn_in.list_of_files, fn_in.lumi_mask)])

\* Lines 778-781 of cmsRunCondor()
CallSelectFiles ==
    /\ fn_pc = "call"
    /\ fn_in.fn = "select_files"
    /\ FnReturn([files |-> select_files(fn_in.list_of_files, fn_in.run_list,
                                        fn_in.lumi_mask)])

\* The arguments of a run on a dataset that reach the job grouping
GroupingArgs(split, unitsPerJob, totalUnits) ==
    [version |-> "cmsRun", profile |-> "none", filelist |-> FALSE,
     dataset |-> TRUE, split |-> split, units_given |-> TRUE,
     units |-> unitsPerJob, total |-> totalUnits]

\* Lines 805-823 of cmsRunCondor(): the job grouping by lumisections, with
\* its local list_of_lumis before and after the choice of totalUnits
CallSplitByLumis ==
    /\ fn_pc = "call"
    /\ fn_in.fn = "split_by_lumis"
    /\ LET list_of_lumis == flatten_lumis(fn_in.list_of_files)
       IN  FnReturn([list_of_lumis |-> list_of_lumis,
                     chosen_lumis |-> truncate_lumis(list_of_lumis, fn_in.totalUnits),
                     plan |-> group_jobs(GroupingArgs("lumis", fn_in.unitsPerJob,
                                                      fn_in.totalUnits),
                                         fn_in.list_of_files,
                                         {"filelist", "lumilist"})])

\* Lines 791-803 of cmsRunCondor(): the job grouping by files
CallSplitByFiles ==
    /\ fn_pc = "call"
    /\ fn_in.fn = "split_by_files"
    /\ FnReturn([plan |-> group_jobs(GroupingArgs("files", fn_in.unitsPerJob,
                                                  <<-1, 1>>),
                                     fn_in.list_of_files,
                                     {"filelist", "lumilist"})])

----------------------------------------------------------------------------
(* parse_run_range.  A Python string is the sequence of its characters.    *)

Digits == {"0", "1", "2", "3", "4", "5", "6", "7", "8", "9"}

DigitValue ==
    ("0" :> 0) @@ ("1" :> 1) @@ ("2" :> 2) @@ ("3" :> 3) @@ ("4" :> 4)
    @@ ("5" :> 5) @@ ("6" :> 6) @@ ("7" :> 7) @@ ("8" :> 8) @@ ("9" :> 9)

\* s.split(sep) for a separator of one character
RECURSIVE split(_, _)
split(s, sep) ==
    IF \A i \in DOMAIN s : s[i] # sep THEN <<s>>
    ELSE LET i == CHOOSE i \in DOMAIN s :
                      s[i] = sep /\ \A j \in 1..(i - 1) : s[j] # sep
         IN  <<SubSeq(s, 1, i - 1)>> \o split(SubSeq(s, i + 1, Len(s)), sep)

\* s.strip()
RECURSIVE strip(_)
strip(s) ==
    IF s = <<>> THEN s
    ELSE IF Head(s) = " " THEN strip(Tail(s))
    ELSE IF s[Len(s)] = " " THEN strip(SubSeq(s, 1, Len(s) - 1))
    ELSE s

RECURSIVE digits_value(_)
digits_value(s) ==
    IF s = <<>> THEN 0
    ELSE 10 * digits_value(SubSeq(s, 1, Len(s) - 1)) + DigitValue[s[Len(s)]]

\* int(s): blanks around the digits are allowed, anything else is a
\* ValueError: [err, value]
int(s) ==
    LET t == strip(s)
    IN  IF t = <<>> \/ \E i \in DOMAIN t : t[i] \notin Digits
        THEN [err |-> "ValueError: invalid literal for int()", value |-> 0]
        ELSE [err |-> "none", value |-> digits_value(t)]

\* range(start, stop)
range(start, stop) == [i \in 1..(stop - start) |-> start + i - 1]

\* A variant: range(int(start), int(end)), which leaves the end out
run_entry_exclusive(entry) ==
    IF \E i \in DOMAIN entry : entry[i] = "-"
    THEN LET parts == split(entry, "-")
         IN  IF Len(parts) # 2
             THEN [err |-> "ValueError: too many values to unpack", runs |-> <<>>]
             ELSE LET start == int(parts[1])
                      end == int(parts[2])
                  IN  IF start.err # "none" THEN [err |-> start.err, runs |-> <<>>]
                      ELSE IF end.err # "none" THEN [err |-> end.err, runs |-> <<>>]
                      ELSE [err |-> "none",
                            runs |-> range(start.value, end.value)]
    ELSE LET run == int(entry)
         IN  IF run.err # "none" THEN [err |-> run.err, runs |-> <<>>]
             ELSE [err |-> "none", runs |-> <<run.value>>]

\* One pass of the loop of lines 632-638 on a stripped entry: [err, runs]
run_entry(entry) ==
    IF \E i \in DOMAIN entry : entry[i] = "-"
    THEN LET parts == split(entry, "-")
         IN  IF Len(parts) # 2
             THEN [err |-> "ValueError: too many values to unpack", runs |-> <<>>]
             ELSE LET start == int(parts[1])
                      end == int(parts[2])
                  IN  IF start.err # "none" THEN [err |-> start.err, runs |-> <<>>]
                      ELSE IF end.err # "none" THEN [err |-> end.err, runs |-> <<>>]
                      ELSE [err |-> "none",
                            runs |-> range(start.value, end.value + 1)]
    ELSE LET run == int(entry)
         IN  IF run.err # "none" THEN [err |-> run.err, runs |-> <<>>]
             ELSE [err |-> "none", runs |-> <<run.value>>]

\* The loop of lines 632-638: the first entry that raises ends it
RECURSIVE run_entries(_)
run_entries(entries) ==
    IF entries = <<>> THEN [err |-> "none", runs |-> <<>>]
    ELSE LET first == run_entry(strip(Head(entries)))
         IN  IF first.err # "none" THEN first
             ELSE LET rest == run_entries(Tail(entries))
                  IN  IF rest.err # "none" THEN rest
                      ELSE [err |-> "none", runs |-> first.runs \o rest.runs]

\* What parse_run_range returns: None, or a list of runs
NoRunList == [kind |-> "None", runs |-> <<>>]
RunList(runs) == [kind |-> "list", runs |-> runs]

\* The argument None
NoString == <<"None">>

\* parse_run_range(range_str): [err, value]
parse_run_range(range_str) ==
    IF range_str = <<>> THEN [err |-> "none", value |-> RunList(<<>>)]
    ELSE IF range_str = NoString THEN [err |-> "none", value |-> NoRunList]
    ELSE LET res == run_entries(split(range_str, ","))
         IN  IF res.err # "none" THEN [err |-> res.err, value |-> NoRunList]
             ELSE [err |-> "none", value |-> RunList(res.runs)]

\* The characters of the strings that are tried
Chars == {"1", "2", ",", "-", "a", " "}

RECURSIVE StringsOfLength(_)
StringsOfLength(n) ==
    IF n = 0 THEN {<<>>}
    ELSE {<<c>> \o s : c \in Chars, s \in StringsOfLength(n - 1)}

Strings == UNION {StringsOfLength(n) : n \in 0..MaxChars}

\* Run ranges as the user means them: an entry is a run <<a>> or a range
\* <<a, b>> of runs with a <= b
RunNumbers == {1, 2, 12}

RunEntries ==
    {<<a>> : a \in RunNumbers}
    \cup {p \in RunNumbers \X RunNumbers : p[1] <= p[2]}

RunEntryLists ==
    {<<>>} \cup {<<e>> : e \in RunEntries}
    \cup {<<e, f>> : e, f \in RunEntries}
    \cup {<<e, f, g>> : e, f, g \in RunEntries}

\* The decimal digits of a number
RECURSIVE Decimal(_)
Decimal(n) ==
    LET last == CHOOSE c \in Digits : DigitValue[c] = n % 10
    IN  IF n < 10 THEN <<last>> ELSE Decimal(n \div 10) \o <<last>>

\* The string a user writes for a list of entries, entries apart by sep
RECURSIVE Written(_, _)
Written(entries, sep) ==
    IF entries = <<>> THEN <<>>
    ELSE LET e == Head(entries)
             text == IF Len(e) = 1 THEN Decimal(e[1])
                     ELSE Decimal(e[1]) \o <<"-">> \o Decimal(e[2])
         IN  IF Len(entries) = 1 THEN text
             ELSE text \o sep \o Written(Tail(entries), sep)

\* The runs the entries stand for, in the order written
RECURSIVE Meant(_)
Meant(entries) ==
    IF entries = <<>> THEN <<>>
    ELSE LET e == Head(entries)
         IN  (IF Len(e) = 1 THEN <<e[1]>>
              ELSE [i \in 1..(e[2] - e[1] + 1) |-> e[1] + i - 1])
             \o Meant(Tail(entries))

ParseCalls ==
    [fn : {"parse_run_range"}, range_str : Strings \cup {NoString},
     entries : {<<>>}, written : {FALSE}]
    \cup {[fn |-> "parse_run_range", range_str |-> Written(e, sep),
           entries |-> e, written |-> TRUE] :
             e \in RunEntryLists, sep \in {<<",">>, <<",", " ">>}}

CallParseRunRange ==
    /\ fn_pc = "call"
    /\ fn_in.fn = "parse_run_range"
    /\ FnReturn(parse_run_range(fn_in.range_str))

\* flag_dependent_args on every choice of set options and of option lists
Options == {"dataset", "secondaryDataset", "filelist"}

FlagCalls ==
    [fn : {"flag_dependent_args"}, args : SUBSET Options,
     opts_a : (SUBSET Options) \ {{}}, opts_b : (SUBSET Options) \ {{}}]

CallFlagDependentArgs ==
    /\ fn_pc = "call"
    /\ fn_in.fn = "flag_dependent_args"
    /\ FnReturn([err |-> flag_dependent_args(fn_in.args, fn_in.opts_a,
                                             fn_in.opts_b)])

----------------------------------------------------------------------------
(* The scheduler (DAGMan) that runs a submitted DAG: a node is eligible    *)
(* once every node it requires is done.  A hadd job may fail; the DAG      *)
(* declares no retry for it.                                               *)

\* The DAG that has been handed to condor_submit_dag
SubmittedDag ==
    (IF hw_pc = "submitted" THEN hadd_dag ELSE {})
    \cup (IF cr_pc = "done" /\ cr_in.dag /\ ~cr_in.dry THEN cmsrun_dag ELSE {})

Eligible(node) ==
    /\ status[node.name] = "idle"
    /\ \A r \in node.requires : status[r] = "done"

StartJob(node) ==
    /\ Eligible(node)
    /\ status' = [status EXCEPT ![node.name] = "running"]
    /\ UNCHANGED <<hw_vars, fn_vars, cr_vars, hdfs>>

\* What a job leaves on HDFS when it succeeds
job_effect(node, files) ==
    IF node.name.kind \in {"interHadd", "finalHadd", "cmsRun"}
    THEN files \cup Range(node.job.output_files)
    ELSE files \ Range(node.job.args)

FinishJob(node) ==
    /\ status[node.name] = "running"
    /\ status' = [status EXCEPT ![node.name] = "done"]
    /\ hdfs' = job_effect(node, hdfs)
    /\ UNCHANGED <<hw_vars, fn_vars, cr_vars>>

FailJob(node) ==
    /\ status[node.name] = "running"
    /\ node.name.kind \in {"interHadd", "finalHadd"}
    /\ status' = [status EXCEPT ![node.name] = "failed"]
    /\ UNCHANGED <<hw_vars, fn_vars, cr_vars, hdfs>>

Schedule ==
    \E node \in SubmittedDag : StartJob(node) \/ FinishJob(node) \/ FailJob(node)

----------------------------------------------------------------------------
(* Specifications *)

Prechecks == {"ok", "no_hadd", "output_not_hdfs", "input_not_found"}
HaddArgs == {<<>>, <<OptArg>>}

CrIdle ==
    /\ cr_err = "none"
    /\ list_of_files = <<>>
    /\ job_files = <<>>
    /\ job_lumis = <<>>
    /\ total_num_jobs = 1
    /\ filenames = {}
    /\ written = {}
    /\ calls = <<>>
    /\ cmsrun_dag = {}

NoInvocation == [version |-> "none"]

FnIdle ==
    /\ fn_pc = "idle"
    /\ fn_in = NoInvocation
    /\ fn_out = NoInvocation

HwIdle ==
    /\ hw_err = "none"
    /\ inter_hadd_jobs = <<>>
    /\ final_hadd_job = NoJob
    /\ rm_jobs = <<>>
    /\ hadd_dag = {}
    /\ status = <<>>
    /\ hdfs = {}

\* haddaway on a handful of files, and the scheduler running its DAG
InitMerge ==
    /\ hw_pc = "start"
    /\ hw_in \in [n : 0..MaxFiles, size : -1..MaxSize, local : SUBSET (1..MaxLocal),
                  hadd_args : HaddArgs, precheck : Prechecks]
    /\ HwIdle
    /\ cr_pc = "idle"
    /\ cr_in = NoInvocation
    /\ CrIdle
    /\ FnIdle

NextMerge == Haddaway \/ Schedule

SpecMerge == InitMerge /\ [][NextMerge]_vars

FairSpecMerge == SpecMerge /\ WF_vars(Schedule)

\* haddaway near the fan-in ceiling of the final hadd
FanInCounts ==
    {g * MaxInterJobs + d : g \in 2..MaxSize, d \in (0 - FanInSpan)..FanInSpan}

InitFanIn ==
    /\ hw_pc = "start"
    /\ hw_in \in [n : FanInCounts, size : 2..MaxSize, local : {{}},
                  hadd_args : {<<>>}, precheck : {"ok"}]
    /\ HwIdle
    /\ cr_pc = "idle"
    /\ cr_in = NoInvocation
    /\ CrIdle
    /\ FnIdle

SpecFanIn == InitFanIn /\ [][Haddaway]_vars

\* cmsRunCondor on a dataset of MaxDsFiles files or a file list of as many.
\* Only the port reads sys.argv after the parse, so only its invocations
\* are tried with arguments that a program passes, and those with the
\* files and directories in place.  Where check_args fails on the config
\* file, the file list or the output directory, --dag and --dry, which
\* nothing reads before the job files are made, are left out.
Envs == {"ok", "no_config", "no_filelist", "out_not_hdfs", "out_absent",
         "das_fail", "input_missing"}

Invocations ==
    {inv \in [version : {"cmsRun", "cmsRunCondor"}, in_argv : BOOLEAN,
              env : Envs,
              dataset : BOOLEAN, filelist : BOOLEAN,
              split : {"files", "lumis", "none"},
              units_given : BOOLEAN, units : -1..MaxUnits,
              total : TotalUnits, dag : BOOLEAN, dry : BOOLEAN,
              profile : {"none", "valgrind"},
              secondary : {"none", "covering", "partial"},
              nfiles : 1..MaxDsFiles, run_list : {<<>>}, lumi_mask : {{}}] :
        /\ ~inv.units_given => inv.units = 0
        /\ inv.version = "cmsRun" => inv.in_argv
        /\ ~inv.in_argv => inv.env = "ok"
        /\ inv.env \in {"no_config", "no_filelist", "out_not_hdfs"} =>
               ~inv.dag /\ ~inv.dry}

InitDataset ==
    /\ cr_pc = "start"
    /\ cr_in \in Invocations
    /\ CrIdle
    /\ hw_pc = "idle"
    /\ hw_in = NoInvocation
    /\ HwIdle
    /\ FnIdle

NextDataset == CmsRunCondor \/ Schedule

SpecDataset == InitDataset /\ [][NextDataset]_vars

\* Either planner, and the scheduler on the DAG it submits
InitPlans == InitMerge \/ InitDataset

NextPlans == Haddaway \/ CmsRunCondor \/ Schedule

SpecPlans == InitPlans /\ [][NextPlans]_vars

\* One call of a helper function
InitHelpers ==
    /\ fn_pc = "call"
    /\ fn_in \in FnCalls \cup ParseCalls \cup FlagCalls
    /\ fn_out = NoInvocation
    /\ hw_pc = "idle"
    /\ hw_in = NoInvocation
    /\ HwIdle
    /\ cr_pc = "idle"
    /\ cr_in = NoInvocation
    /\ CrIdle

NextHelpers ==
    \/ CallGrouper
    \/ CallFindMatchingFiles
    \/ CallFilterByRunNum
    \/ CallFilterByLumiList
    \/ CallSelectFiles
    \/ CallSplitByLumis
    \/ CallSplitByFiles
    \/ CallParseRunRange
    \/ CallFlagDependentArgs

SpecHelpers == InitHelpers /\ [][NextHelpers]_vars

----------------------------------------------------------------------------
(* Properties of the merge planner *)

InputFilesOfRun == input_files_of(hw_in.n)
GroupsOfRun == arrange_hadd_files(InputFilesOfRun, hw_in.size)
JobInputs(jobs) == [i \in DOMAIN jobs |-> jobs[i].input_files]
JobOutputs(jobs) == [i \in DOMAIN jobs |-> jobs[i].output_files[1]]
NodeOf(nm) == CHOOSE d \in hadd_dag : d.name = nm
NodesOfKind(kind) == {d \in hadd_dag : d.name.kind = kind}
Started(nm) == status[nm] \in {"running", "done", "failed"}

\* C2: in the merge DAG the final job requires every intermediate job and
\* every removal job of an intermediate output requires the final job; so in
\* every run of the DAG the final job has not started while an intermediate
\* job is unfinished, and no intermediate output has been removed (nor has a
\* removal job started) while the final job is unfinished.
C2_TrueDependencies ==
    hw_pc = "submitted" =>
        /\ NodeOf(FinalName).requires = {j.name : j \in Range(inter_hadd_jobs)}
        /\ \A d \in NodesOfKind("rm") : FinalName \in d.requires
        /\ Started(FinalName) =>
              \A j \in Range(inter_hadd_jobs) : status[j.name] = "done"
        /\ \A d \in NodesOfKind("rm") :
              Started(d.name) => status[FinalName] = "done"
        /\ \A j \in Range(inter_hadd_jobs) :
              (status[j.name] = "done" /\ j.output_files[1] \notin hdfs)
                  => status[FinalName] = "done"

\* A removal job has run to its end after the final job, with several
\* intermediate jobs in the DAG.
C2_Witness ==
    /\ hw_pc = "submitted"
    /\ Len(inter_hadd_jobs) >= 2
    /\ \E d \in NodesOfKind("rm") : status[d.name] = "done"

\* The structure half of C4: as many removal jobs as intermediate jobs, the
\* i-th removing exactly the i-th intermediate job's output, each a node of
\* the DAG.
CleanupOneToOne ==
    hw_pc = "submitted" =>
        /\ Len(rm_jobs) = Len(inter_hadd_jobs)
        /\ \A i \in DOMAIN rm_jobs :
              /\ rm_jobs[i].args = <<inter_hadd_jobs[i].output_files[1]>>
              /\ \E d \in NodesOfKind("rm") : d.job = rm_jobs[i]
        /\ Cardinality(NodesOfKind("rm")) = Len(inter_hadd_jobs)

FinalSucceeded == hw_pc = "submitted" /\ status[FinalName] = "done"

NoIntermediateRetained ==
    \A j \in Range(inter_hadd_jobs) : j.output_files[1] \notin hdfs

\* C4: every intermediate job has exactly one removal job, which removes
\* exactly that job's output; and under a scheduler that keeps running
\* eligible jobs, once the final job has succeeded every intermediate output
\* is eventually gone from HDFS.
C4_IntermediatesRemoved ==
    /\ []CleanupOneToOne
    /\ (FinalSucceeded ~> (FinalSucceeded /\ NoIntermediateRetained))

\* All intermediate outputs were on HDFS, the final job succeeded, and the
\* removal jobs have since removed them all.
C4_Witness ==
    /\ FinalSucceeded
    /\ Len(inter_hadd_jobs) >= 2
    /\ \A d \in NodesOfKind("rm") : status[d.name] = "done"
    /\ NoIntermediateRetained

\* C5: for N >= 2 input files and --size >= 2, the inputs of the intermediate
\* jobs, concatenated in job order (the final job's inputs when there is no
\* intermediate job), are the input list; and the final job's inputs are the
\* intermediate outputs in job order.
C5_PlanCoversInputs ==
    (hw_pc = "submitted" /\ hw_in.n >= 2 /\ hw_in.size >= 2) =>
        IF inter_hadd_jobs = <<>>
        THEN final_hadd_job.input_files = InputFilesOfRun
        ELSE /\ Flatten(JobInputs(inter_hadd_jobs)) = InputFilesOfRun
             /\ final_hadd_job.input_files = JobOutputs(inter_hadd_jobs)

\* A plan whose last group is short
C5_Witness ==
    /\ hw_pc = "submitted"
    /\ Len(inter_hadd_jobs) >= 3
    /\ Len(inter_hadd_jobs[Len(inter_hadd_jobs)].input_files)
          < Len(inter_hadd_jobs[1].input_files)

\* C6: when N > 2 and the group size was adjusted (N mod G = 1 and G > 2), no
\* group of one file is produced.
C6_NoGroupOfOne ==
    (/\ hw_pc = "submitted"
     /\ hw_in.n > 2
     /\ hw_in.n % hw_in.size = 1
     /\ hw_in.size > 2)
        => \A j \in Range(inter_hadd_jobs) : Len(j.input_files) # 1

\* C7: 256 groups end create_hadd_jobs with an error and no job; 255 groups
\* give 255 intermediate jobs and a final job.
C7_FanInCeiling ==
    hw_pc # "start" =>
        /\ Len(GroupsOfRun) = MaxInterJobs + 1 =>
              /\ hw_pc = "error"
              /\ hw_err = "RuntimeError: Final hadd cannot cope"
              /\ inter_hadd_jobs = <<>>
              /\ final_hadd_job = NoJob
        /\ Len(GroupsOfRun) = MaxInterJobs =>
              /\ hw_pc = "submitted"
              /\ Len(inter_hadd_jobs) = MaxInterJobs
              /\ final_hadd_job.name = FinalName

\* haddaway has failed on a grouping of exactly 256 groups
C7_Witness ==
    /\ hw_pc = "error"
    /\ Len(GroupsOfRun) = MaxInterJobs + 1

\* C8: one group gives no intermediate job and a final job reading the input
\* files; k > 1 groups give k intermediate jobs, the i-th reading the i-th
\* group, with pairwise distinct outputs, which are the final job's inputs.
C8_PlanShape ==
    hw_pc = "submitted" =>
        IF Len(GroupsOfRun) = 1
        THEN /\ inter_hadd_jobs = <<>>
             /\ final_hadd_job.input_files = InputFilesOfRun
        ELSE /\ Len(inter_hadd_jobs) = Len(GroupsOfRun)
             /\ \A i \in DOMAIN inter_hadd_jobs :
                   /\ inter_hadd_jobs[i].input_files = GroupsOfRun[i]
                   /\ Len(inter_hadd_jobs[i].output_files) = 1
             /\ \A i, k \in DOMAIN inter_hadd_jobs :
                   i # k => inter_hadd_jobs[i].output_files[1]
                              # inter_hadd_jobs[k].output_files[1]
             /\ final_hadd_job.input_files = JobOutputs(inter_hadd_jobs)
             /\ Range(final_hadd_job.input_files)
                   = {j.output_files[1] : j \in Range(inter_hadd_jobs)}

\* Three intermediate jobs whose random suffixes coincide
C8_Witness ==
    /\ hw_pc = "submitted"
    /\ Len(inter_hadd_jobs) >= 3
    /\ inter_hadd_jobs[1].output_files[1].rnd = inter_hadd_jobs[2].output_files[1].rnd

----------------------------------------------------------------------------
(* The dataset planner                                                     *)

JobDescriptionFiles == {"filelist", "lumilist", "condor", "dag"}

Submitted ==
    \E i \in DOMAIN calls : calls[i] \in {"condor_submit", "condor_submit_dag"}

SandboxError == "IOError: Cannot find additional file"

\* The job grouping has been done: it always writes the file list
HasGrouped == "filelist" \in written

\* C1 as the code has it: when cmsRunCondor raises an error, neither the
\* condor script nor the DAG file has been written and nothing has been
\* submitted.  An error of check_args or of the file resolution is raised
\* before any job-description file is written, but the IOError of
\* setup_sandbox for a missing additional input file is raised after the
\* job grouping has written the file-list artifact (and the lumi-list
\* artifact of a dataset), unless the run is a profiling run, which groups
\* nothing.
C1_AbortBeforeScriptAndSubmission ==
    cr_pc = "error" =>
        /\ written \cap {"condor", "dag"} = {}
        /\ ~Submitted
        /\ cr_err # SandboxError => written \cap JobDescriptionFiles = {}
        /\ cr_err = SandboxError /\ ~Profiling(cr_in) => HasGrouped

C1_Witness ==
    /\ cr_pc = "error"
    /\ cr_err = SandboxError
    /\ cr_in.dataset
    /\ {"filelist", "lumilist"} \subseteq written

\* C1 as the specification states it: whenever cmsRunCondor raises an error,
\* the sandbox IOError included, no job-description file (file list, lumi
\* list, condor script, DAG file) has been written and nothing has been
\* submitted.
C1_AbortBeforeAnyJobDescription ==
    cr_pc = "error" =>
        /\ written \cap JobDescriptionFiles = {}
        /\ ~Submitted

\* C3: the DAGs hold no false dependency.  In the merge DAG no intermediate
\* hadd job requires an intermediate hadd job and no cleanup job requires a
\* cleanup job; in the dataset DAG no node requires any node.  So in a
\* submitted DAG an idle intermediate or cmsRun job is eligible whatever its
\* peers are doing, and an idle cleanup job is eligible once the final hadd
\* job is done.
C3_NoFalseDependency ==
    /\ \A d \in hadd_dag : \A r \in d.requires :
           /\ d.name.kind = "interHadd" => r.kind # "interHadd"
           /\ d.name.kind = "rm" => r.kind # "rm"
    /\ \A d \in cmsrun_dag : d.requires = {}
    /\ \A d \in SubmittedDag :
           /\ d.name.kind \in {"interHadd", "cmsRun"} /\ status[d.name] = "idle"
                  => Eligible(d)
           /\ d.name.kind = "rm" /\ status[d.name] = "idle"
                  /\ status[FinalName] = "done" => Eligible(d)

\* After the final hadd job, one cleanup job runs, one is done and one is
\* still idle
C3_Witness ==
    /\ hw_pc = "submitted"
    /\ \E a, b, c \in NodesOfKind("rm") :
           /\ status[a.name] = "running"
           /\ status[b.name] = "done"
           /\ status[c.name] = "idle"

\* C9: group_files_by_files_per_job on L files with G > 0 files per job gives
\* groups whose lengths sum to L, each but the last of length G, the last of
\* length 1..G, whose concatenation is the list of files; so every file is
\* in exactly one group.
C9_FileGroupsPartition ==
    (HasGrouped /\ SplitByFiles(cr_in) /\ cr_in.units > 0) =>
        LET L == Len(list_of_files)
            G == cr_in.units
        IN  /\ Len(Flatten(job_files)) = L
            /\ \A i \in DOMAIN job_files :
                   /\ i < Len(job_files) => Len(job_files[i]) = G
                   /\ Len(job_files[i]) \in 1..G
            /\ Flatten(job_files) = list_of_files
            /\ \A k \in DOMAIN list_of_files :
                   Cardinality({<<i, j>> \in (DOMAIN job_files) \X (1..G) :
                                   /\ j \in DOMAIN job_files[i]
                                   /\ job_files[i][j] = list_of_files[k]}) = 1

\* Three files, two per job: a full group and a shorter last group
C9_Witness ==
    /\ HasGrouped
    /\ SplitByFiles(cr_in)
    /\ cr_in.units = 2
    /\ Len(list_of_files) = 3
    /\ Len(job_files) = 2
    /\ Len(job_files[2]) = 1

\* C10: a run that is not a profiling run and whose unitsPerJob is absent or
\* not positive never produces job groups: it does not get as far as the job
\* grouping, writes no file list, and ends in an error.
C10_NonPositiveUnitsRejected ==
    (cr_in.version # "none" /\ ~Profiling(cr_in)
        /\ (~cr_in.units_given \/ cr_in.units <= 0)) =>
        /\ cr_pc \notin {"grouped", "sandboxed", "scripted", "done"}
        /\ ~HasGrouped

----------------------------------------------------------------------------
(* The helper functions of the dataset planner                             *)

Returned(fn) == fn_pc = "return" /\ fn_in.fn = fn

\* C11: grouper, called with a group size of 0 or a negative group size,
\* signals an error instead of returning a list of groups.
C11_GrouperRejectsNonPositiveSize ==
    (Returned("grouper") /\ fn_in.n <= 0) => fn_out.err # "none"

\* The target's pairs that no candidate file holds
Uncovered(raw_files, lumi_list) ==
    {k \in lumi_list : \A i \in DOMAIN raw_files : k \notin raw_files[i].lumi_list}

\* C12: find_matching_files raises an error whenever some <<run, lumisection>>
\* of the target is in no candidate file, also when other lumisections of the
\* same contiguous range are covered.
C12_UncoveredLumiFails ==
    (Returned("find_matching_files")
        /\ Uncovered(fn_in.raw_files, fn_in.lumi_list) # {})
    => fn_out.err # "none"

\* C13: when every <<run, lumisection>> of the target is in some candidate
\* file, find_matching_files raises nothing and returns exactly the candidates
\* that hold at least one pair of the target, each once, and no candidate that
\* shares no pair with the target.
C13_MatchingFilesExact ==
    (Returned("find_matching_files")
        /\ Uncovered(fn_in.raw_files, fn_in.lumi_list) = {})
    => /\ fn_out.err = "none"
       /\ fn_out.files = {fn_in.raw_files[i] : i \in
                             {j \in DOMAIN fn_in.raw_files :
                                 fn_in.raw_files[j].lumi_list \cap fn_in.lumi_list # {}}}

\* Candidates with lumisections 1-2 and 3-4 of run 1 are both returned for
\* the target 1-4
C13_Witness ==
    /\ Returned("find_matching_files")
    /\ fn_in.lumi_list = {<<1, 1>>, <<1, 2>>, <<1, 3>>, <<1, 4>>}
    /\ fn_in.raw_files = <<DatasetFile(1, {<<1, 1>>, <<1, 2>>}),
                           DatasetFile(2, {<<1, 3>>, <<1, 4>>})>>
    /\ fn_out.files = Range(fn_in.raw_files)

\* C14: group_files_by_lumis_per_job on K keys with G > 0 lumisections per job
\* gives ceil(K/G) jobs; every job but the last has G keys and the last has
\* 1..G; the jobs' LumiLists are disjoint and together are the K keys, so a
\* job's LumiList holds the keys of its group and no other lumisection of a
\* file that contributes to it; a job's files are the files of its keys.
C14_LumiGroupsExact ==
    Returned("split_by_lumis") =>
        LET chosen == fn_out.chosen_lumis
            K == Cardinality(DOMAIN chosen)
            G == fn_in.unitsPerJob
            lumis == fn_out.plan.job_lumis
            files == fn_out.plan.job_files
        IN  /\ Len(lumis) = CeilDiv(K, G)
            /\ Len(files) = Len(lumis)
            /\ \A i \in DOMAIN lumis :
                   /\ i < Len(lumis) => Cardinality(lumis[i]) = G
                   /\ Cardinality(lumis[i]) \in 1..G
                   /\ files[i] = {chosen[k] : k \in lumis[i]}
                   /\ \A j \in DOMAIN lumis : i # j => lumis[i] \cap lumis[j] = {}
            /\ UNION {lumis[i] : i \in DOMAIN lumis} = DOMAIN chosen

\* Five keys, two per job: jobs of 2, 2 and 1 keys, the first of them with a
\* file that holds a lumisection of another job
C14_Witness ==
    /\ Returned("split_by_lumis")
    /\ fn_in.unitsPerJob = 2
    /\ Cardinality(DOMAIN fn_out.chosen_lumis) = 5
    /\ Len(fn_out.plan.job_lumis) = 3
    /\ Cardinality(fn_out.plan.job_lumis[3]) = 1
    /\ \E f \in fn_out.plan.job_files[1] :
           ~(f.lumi_list \subseteq fn_out.plan.job_lumis[1])

\* C15: list_of_lumis with K keys is cut before the grouping to all K keys
\* for a negative totalUnits, to ceil(totalUnits * K) keys for
\* 0 < totalUnits < 1, and to min(K, floor(totalUnits)) keys for
\* totalUnits >= 1.
C15_TotalUnitsOfLumis ==
    Returned("split_by_lumis") =>
        LET K == Cardinality(DOMAIN fn_out.list_of_lumis)
            n == Cardinality(DOMAIN fn_out.chosen_lumis)
            t == fn_in.totalUnits
            floor == t[1] \div t[2]
        IN  /\ t[1] < 0 => n = K
            /\ (0 < t[1] /\ t[1] < t[2]) => n = CeilDiv(t[1] * K, t[2])
            /\ t[1] >= t[2] => n = IF K < floor THEN K ELSE floor

\* C16: list_of_lumis has each <<run, lumisection>> of the files once, and
\* with it the file that holds it and comes last in the list of files.
C16_LastFileWins ==
    Returned("split_by_lumis") =>
        LET files == fn_in.list_of_files
            list_of_lumis == fn_out.list_of_lumis
        IN  /\ DOMAIN list_of_lumis = UNION {files[i].lumi_list : i \in DOMAIN files}
            /\ \A k \in DOMAIN list_of_lumis : \A i \in DOMAIN files :
                   (/\ k \in files[i].lumi_list
                    /\ \A j \in DOMAIN files : j > i => k \notin files[j].lumi_list)
                   => list_of_lumis[k] = files[i]

\* Both files hold lumisection 1 of run 1, which goes with the second
C16_Witness ==
    /\ Returned("split_by_lumis")
    /\ Len(fn_in.list_of_files) = 2
    /\ <<1, 1>> \in fn_in.list_of_files[1].lumi_list
    /\ <<1, 1>> \in fn_in.list_of_files[2].lumi_list
    /\ fn_in.list_of_files[1].lumi_list # fn_in.list_of_files[2].lumi_list
    /\ fn_out.list_of_lumis[<<1, 1>>] = fn_in.list_of_files[2]

\* C17: splitting a dataset by files, the LumiList of each job is the union
\* of the LumiLists of the files of that job, and of no other file.
C17_JobLumisAreUnion ==
    Returned("split_by_files") =>
        LET files == fn_out.plan.job_files
            lumis == fn_out.plan.job_lumis
        IN  /\ Len(lumis) = Len(files)
            /\ Flatten(files) = fn_in.list_of_files
            /\ \A g \in DOMAIN files :
                   \A k \in Keys :
                       k \in lumis[g] <=> \E i \in DOMAIN files[g] :
                                             k \in files[g][i].lumi_list

\* A job of two files, each with a lumisection the other lacks
C17_Witness ==
    /\ Returned("split_by_files")
    /\ Len(fn_out.plan.job_files) = 1
    /\ Len(fn_out.plan.job_files[1]) = 2
    /\ fn_out.plan.job_files[1][1].lumi_list \ fn_out.plan.job_files[1][2].lumi_list # {}
    /\ fn_out.plan.job_files[1][2].lumi_list \ fn_out.plan.job_files[1][1].lumi_list # {}
    /\ fn_out.plan.job_lumis[1] = fn_out.plan.job_files[1][1].lumi_list
                                     \cup fn_out.plan.job_files[1][2].lumi_list

\* C18: the job grouping, by files or by lumisections, and the making of the
\* jobs' LumiLists leave every file's lumi_list as the filters left it; the
\* files in the jobs are those files.
C18_GroupingKeepsCoverage ==
    (Returned("split_by_files") \/ Returned("split_by_lumis")) =>
        /\ fn_out.plan.files = fn_in.list_of_files
        /\ \A g \in DOMAIN fn_out.plan.job_files :
               LET group == fn_out.plan.job_files[g]
               IN  IF fn_in.fn = "split_by_files"
                   THEN Range(group) \subseteq Range(fn_in.list_of_files)
                   ELSE group \subseteq Range(fn_in.list_of_files)

\* The first file of a two-file job is narrower than the job's LumiList
C18_Witness ==
    /\ Returned("split_by_files")
    /\ Len(fn_in.list_of_files) = 2
    /\ Len(fn_out.plan.job_lumis) = 1
    /\ fn_out.plan.job_lumis[1] # fn_in.list_of_files[1].lumi_list
    /\ fn_out.plan.files[1].lumi_list = fn_in.list_of_files[1].lumi_list

\* out is the files of in whose part keep[i] of the coverage is not empty,
\* in the order of in, each with keep[i] as its coverage
IsFiltered(in, out, keep) ==
    LET kept == {i \in DOMAIN in : keep[i] # {}}
    IN  /\ Len(out) = Cardinality(kept)
        /\ \A i \in kept :
               LET pos == Cardinality({j \in kept : j <= i})
               IN  /\ out[pos].name = in[i].name
                   /\ out[pos].lumi_list = keep[i]

\* The lumisections of each file that are of a run of the run list
InRuns(files, run_list) ==
    [i \in DOMAIN files |->
        {p \in files[i].lumi_list : \E r \in DOMAIN run_list : run_list[r] = p[1]}]

\* The lumisections of each file that are in the lumi mask
InMask(files, lumi_mask) ==
    [i \in DOMAIN files |-> files[i].lumi_list \cap lumi_mask]

\* C19: filter_by_run_num returns, in the order of its input, the files that
\* have lumisections of a run of the run list, each with just those
\* lumisections; filter_by_lumi_list does the same with the lumisections of
\* the lumi mask.  So every file returned has some lumisection.
C19_FiltersIntersect ==
    /\ Returned("filter_by_run_num") =>
           IsFiltered(fn_in.list_of_files, fn_out.files,
                      InRuns(fn_in.list_of_files, fn_in.run_list))
    /\ Returned("filter_by_lumi_list") =>
           IsFiltered(fn_in.list_of_files, fn_out.files,
                      InMask(fn_in.list_of_files, fn_in.lumi_mask))
    /\ (Returned("filter_by_run_num") \/ Returned("filter_by_lumi_list")) =>
           \A i \in DOMAIN fn_out.files : fn_out.files[i].lumi_list # {}

\* The mask drops the first file and narrows the second
C19_Witness ==
    /\ Returned("filter_by_lumi_list")
    /\ Len(fn_in.list_of_files) = 2
    /\ fn_in.list_of_files[1].lumi_list \cap fn_in.lumi_mask = {}
    /\ Len(fn_out.files) = 1
    /\ fn_out.files[1].name = fn_in.list_of_files[2].name
    /\ fn_out.files[1].lumi_list # fn_in.list_of_files[2].lumi_list

\* C20: cmsRunCondor() applies no filter for an empty run list and an empty
\* lumi mask, and the files and their coverage stay as they are; an empty
\* filter leaves the other filter alone; a run list that is not empty and
\* matches no file gives an empty list of files.
C20_EmptyFilterIsNoFilter ==
    Returned("select_files") =>
        LET in == fn_in.list_of_files
            out == fn_out.files
            in_runs == InRuns(in, fn_in.run_list)
        IN  /\ (fn_in.run_list = <<>> /\ fn_in.lumi_mask = {}) => out = in
            /\ (fn_in.run_list = <<>> /\ fn_in.lumi_mask # {})
                   => IsFiltered(in, out, InMask(in, fn_in.lumi_mask))
            /\ (fn_in.run_list # <<>> /\ fn_in.lumi_mask = {})
                   => IsFiltered(in, out, in_runs)
            /\ (fn_in.run_list # <<>> /\ \A i \in DOMAIN in : in_runs[i] = {})
                   => out = <<>>

\* No run list and no lumi mask: both files are kept as they are
C20_Witness ==
    /\ Returned("select_files")
    /\ fn_in.run_list = <<>>
    /\ fn_in.lumi_mask = {}
    /\ Len(fn_in.list_of_files) = 2
    /\ fn_out.files = fn_in.list_of_files

----------------------------------------------------------------------------
(* Properties of parse_run_range (SpecHelpers).                            *)

\* C21: parse_run_range maps a comma-separated string of single runs and
\* 'a-b' ranges to the concatenation, in the order written, of each single
\* run and of every run from a to b inclusive: duplicates are kept and
\* nothing is sorted.  The empty string gives the empty list, and None gives
\* None, which is not the empty list.
C21_RunRangeConcatenates ==
    Returned("parse_run_range") =>
        /\ fn_in.written =>
               fn_out = [err |-> "none", value |-> RunList(Meant(fn_in.entries))]
        /\ fn_in.range_str = <<>> =>
               fn_out = [err |-> "none", value |-> RunList(<<>>)]
        /\ fn_in.range_str = NoString =>
               /\ fn_out = [err |-> "none", value |-> NoRunList]
               /\ fn_out.value # RunList(<<>>)

\* "2, 1-2" gives [2, 1, 2]: the duplicate stays, the order is as written
C21_Witness ==
    /\ Returned("parse_run_range")
    /\ fn_in.written
    /\ fn_in.range_str = <<"2", ",", " ", "1", "-", "2">>
    /\ fn_in.entries = <<(<<2>>), (<<1, 2>>)>>
    /\ fn_out.value = RunList(<<2, 1, 2>>)

\* An entry of a run range is a number when, blanks around it aside, it is
\* a non-empty string of digits
IsNumber(s) == strip(s) # <<>> /\ \A i \in DOMAIN strip(s) : strip(s)[i] \in Digits

\* An 'a-b' entry with a boundary that is no number, or with a > b
BadRange(entry) ==
    LET parts == split(entry, "-")
    IN  /\ Len(parts) = 2
        /\ \/ ~IsNumber(parts[1])
           \/ ~IsNumber(parts[2])
           \/ digits_value(strip(parts[1])) > digits_value(strip(parts[2]))

\* C22: parse_run_range fails with a parse error when a range has a
\* boundary that is not a number and when a range is inverted (start > end);
\* it never returns a run list for such a string.
C22_BadRangeFails ==
    (/\ Returned("parse_run_range")
     /\ fn_in.range_str # NoString
     /\ \E i \in DOMAIN split(fn_in.range_str, ",") :
            BadRange(split(fn_in.range_str, ",")[i]))
        => fn_out.err # "none"

----------------------------------------------------------------------------
(* Properties of the dataset planner's argument checks and submission      *)
(* (SpecDataset)                                                           *)

DasQuery == {"das_client summary", "das_client file,run,lumi"}

UnitsAboveTotal(inv) ==
    /\ inv.units_given
    /\ inv.total[1] >= inv.total[2]
    /\ inv.units * inv.total[2] > inv.total[1]

\* C23: when totalUnits is an explicit count (>= 1) and unitsPerJob is
\* larger than totalUnits, the invocation is rejected with an error before
\* any DAS query is made and before any file list is read.
C23_UnitsAboveTotalRejected ==
    (cr_pc # "start" /\ UnitsAboveTotal(cr_in)) =>
        /\ cr_pc = "error"
        /\ \A i \in DOMAIN calls : calls[i] \notin DasQuery
        /\ list_of_files = <<>>
        /\ filenames = {}

\* --dataset --splitByFiles --unitsPerJob 3 --totalUnits 2
C23_Witness ==
    /\ cr_pc = "error"
    /\ cr_err = "RuntimeError: You can't have unitsPerJob > totalUnits!"
    /\ cr_in.dataset
    /\ cr_in.units = 3
    /\ cr_in.total = <<2, 1>>
    /\ list_of_files = <<>>

\* The combinations of options that each script declares exclusive: lines
\* 550 and 586 of cmsRun/cmsRunCondor.py, lines 55-77, 203 and 205-208 of
\* cmsRunCondor/cmsRunCondor.py
ExclusiveFlags(inv) ==
    IF inv.version = "cmsRun"
    THEN \/ inv.filelist /\ (inv.dataset \/ inv.split = "lumis")
         \/ Profiling(inv) /\ (inv.filelist \/ inv.dataset)
    ELSE \/ inv.filelist /\ (inv.dataset \/ inv.split = "lumis")
         \/ Profiling(inv) /\ (\/ inv.filelist
                               \/ inv.dataset
                               \/ inv.split # "none"
                               \/ inv.units_given
                               \/ inv.total # <<-1, 1>>)

\* C24: every combination of mutually exclusive options is rejected before
\* any external call (hadoop mkdir, DAS query, staging, submission) is made,
\* whether the arguments come from the command line or from a program that
\* calls cmsRunCondor(in_args).
C24_ExclusiveFlagsRejectedFirst ==
    (cr_pc # "start" /\ ExclusiveFlags(cr_in)) =>
        /\ cr_pc = "error"
        /\ calls = <<>>

SubmitCalls == SelectSeq(calls, LAMBDA c : c \in {"condor_submit", "condor_submit_dag"})

\* C25: a dry run builds the same job-description artifacts (file list,
\* lumi list, sandbox, condor script, DAG description) as a run without the
\* flag and never submits; a run without the flag submits exactly once, the
\* DAG when one was asked for and the plain job file otherwise.
C25_DryRunBuildsAndNeverSubmits ==
    cr_pc = "done" =>
        /\ {"sandbox", "condor"} \subseteq written
        /\ cr_in.dag => "dag" \in written
        /\ written \cap {"filelist", "lumilist"}
               = group_jobs(cr_in, list_of_files, filenames).written
        /\ cr_in.dry => SubmitCalls = <<>>
        /\ ~cr_in.dry =>
               SubmitCalls = <<IF cr_in.dag THEN "condor_submit_dag"
                               ELSE "condor_submit">>

\* The run with the same filters, split mode, unitsPerJob, totalUnits and
\* metadata, in which every other circumstance is fixed
ReferenceRun(inv) ==
    [inv EXCEPT !.dry = FALSE, !.dag = FALSE, !.env = "ok", !.in_argv = TRUE]

\* The job partition of a run, from its arguments alone
PartitionOf(inv) ==
    LET got == resolve_files(inv)
        res == group_jobs(inv, got.files, got.filenames)
    IN  <<res.total_num_jobs, res.job_files, res.job_lumis>>

----------------------------------------------------------------------------
(* Properties of flag_dependent_args (SpecHelpers)                         *)

\* C27: flag_dependent_args raises whenever some option of opts_b is set
\* while some option of opts_a is not set; so check_args rejects
\* --secondaryDataset without --dataset.
C27_DependentFlagRaises ==
    (/\ Returned("flag_dependent_args")
     /\ fn_in.opts_b \cap fn_in.args # {}
     /\ fn_in.opts_a \ fn_in.args # {})
        => fn_out.err # "none"

----------------------------------------------------------------------------
(* Properties of the split by lumisections as a whole (SpecHelpers): the   *)
(* list of files is the filtered one, unitsPerJob is 1 or more.            *)

\* The <<run, lumisection>> pairs of the filtered files
Coverage(files) == UNION {files[i].lumi_list : i \in DOMAIN files}

FileOfLumi(files, k) ==
    files[CHOOSE i \in DOMAIN files :
            /\ k \in files[i].lumi_list
            /\ \A j \in DOMAIN files : k \in files[j].lumi_list => j <= i]

\* C29: splitting by lumisections, for every job and every pair of its
\* LumiList the job's files include a file whose filtered coverage holds the
\* pair; a job has each file at most once, and no file that goes with none
\* of the job's pairs.
C29_JobFilesMatchJobLumis ==
    Returned("split_by_lumis") =>
        LET lumis == fn_out.plan.job_lumis
            files == fn_out.plan.job_files
        IN  /\ DOMAIN files = DOMAIN lumis
            /\ \A g \in DOMAIN lumis :
                   /\ \A k \in lumis[g] : \E f \in files[g] : k \in f.lumi_list
                   /\ \A f1, f2 \in files[g] : f1.name = f2.name => f1 = f2
                   /\ \A f \in files[g] :
                          \E k \in lumis[g] : FileOfLumi(fn_in.list_of_files, k) = f

\* Two files with one lumisection each, one per job: each job has its file
\* and not the other
C29_Witness ==
    /\ Returned("split_by_lumis")
    /\ Len(fn_in.list_of_files) = 2
    /\ fn_in.list_of_files[1].lumi_list \cap fn_in.list_of_files[2].lumi_list = {}
    /\ Len(fn_out.plan.job_files) = 2
    /\ Cardinality(fn_out.plan.job_files[1]) = 1
    /\ Cardinality(fn_out.plan.job_files[2]) = 1
    /\ fn_out.plan.job_files[1] # fn_out.plan.job_files[2]

----------------------------------------------------------------------------
(* The choice of totalUnits files of a file list (SpecDataset)             *)

FilelistError == "IndexError: You cannot have more files than in the files"

\* C30: with --filelist, F files in the list and an explicit count
\* totalUnits = n >= 1, the planner raises an error exactly when n > F; for
\* 1 <= n <= F it goes on with the first n files of the list, in the order
\* of the list; with a negative totalUnits it goes on with all F files.
C30_FilelistCountWithinList ==
    (cr_in.version # "none" /\ cr_in.filelist) =>
        LET F == cr_in.nfiles
            n == cr_in.total[1] \div cr_in.total[2]
            count == cr_in.total[1] >= cr_in.total[2]
        IN  /\ cr_err = FilelistError => (count /\ n > F)
            /\ (cr_pc = "resolved" /\ count) =>
                   (n <= F /\ list_of_files = Slice(filelist_files(F), n))
            /\ (cr_pc = "resolved" /\ cr_in.total[1] < 0) =>
                   list_of_files = filelist_files(F)

====
